---- MODULE Spec2Model ----
(***************************************************************************)
(* Model of the extended Redis cache client of the repository:             *)
(*   src/django/django_redis_ext/client.py  (DjangoRedisExtended)          *)
(*   src/django/django_redis_ext/cache.py   (RedisCacheExtended)           *)
(* and of three smaller parts of it:                                       *)
(*   src/django/keycloak_auth/__init__.py   (Registry)                     *)
(*   src/django/saphana/base.py             (DatabaseWrapper)              *)
(*   src/gitlab/vars.py                     (GitlabClient)                 *)
(*                                                                         *)
(* Names are strings cut into tokens (a sequence of tokens is a string),   *)
(* so that key namespacing and glob matching are computed, not assumed.    *)
(* Spec    : the pattern bulk-op engine and its script cache.              *)
(* SpecOps : the typed single-command operations and the wrapper.          *)
(***************************************************************************)
EXTENDS Integers, Sequences, FiniteSets, TLC

VARIABLES
    store,      \* Spec: the keyspace of the store, namespaced key -> entry or Absent
    scripts,    \* Spec: hashes of the scripts the store has compiled and still knows
    ignoreExc,  \* backend option IGNORE_EXCEPTIONS (fixed at construction)
    pc,         \* Spec: position of the running bulk-op call
    call,       \* Spec: arguments and locals of the running / last bulk-op call
    lua,        \* Spec: locals of the server-side procedure while it runs
    kv,         \* SpecOps: the keyspace the typed operations work on
    op,         \* SpecOps: the typed operation that ran last, with what it sent and returned
    rn,         \* SpecRace: the rename that is between its two commands
    reg,        \* SpecRegistry: MetaSingleton._instances, Registry._registry, the last call
    hana,       \* SpecHana: the wrapper's connection and the open temporary_connection blocks
    gl          \* SpecGitlab: the server's variables and the client's running / last call

vars == <<store, scripts, ignoreExc, pc, call, lua, kv, op, rn, reg, hana, gl>>

\* Python None: "None" in a slot that holds a plain token (a version), Nothing in
\* a slot that holds a token sequence (a string) or an Optional[int], <<n>>
None == "None"
Nothing == <<>>
Some(n) == <<n>>
\* the store has no entry under the key
Absent == [val |-> <<>>, ttl |-> "absent"]

\* ------------------------------------------------------------------ bounds
\* largest explicit batch size a caller passes (beside the default)
MaxIter == 2

\* largest absolute expiry timestamp a caller passes
MaxStamp == 1
\* most whole days in a relative expiry
MaxDays == 1
\* longest list a caller builds
MaxLen == 2

\* --------------------------------------------------------- program constants
DefaultIterSize == 50000
\* the backend's default version, as make_key formats it (str(1))
DefaultVersion == "1"
KeyPrefix == "app"

\* ------------------------------------------------------------ pure helpers
\* str(version): the version argument is annotated str (client.py:35)
VerStr(v) == v

\* str.upper() / str.lower() on the command names the engine is called with
Upper(s) == CASE s = "del" -> "DEL" [] s = "unlink" -> "UNLINK" [] OTHER -> s
Lower(s) == CASE s = "DEL" -> "del" [] s = "UNLINK" -> "unlink" [] OTHER -> s

\* django key function "%s:%s:%s" % (prefix, version, key), used by make_key
\* with the backend's prefix; version None means the backend's default version
make_key(key, version) ==
    <<KeyPrefix, ":", VerStr(IF version = None THEN DefaultVersion ELSE version), ":">> \o key

\* faulty variant: the version is left out of the pattern: every version matches
make_pattern_anyversion(pattern, version, prefix) ==
    <<IF prefix = None THEN KeyPrefix ELSE prefix, ":", "*", ":">> \o pattern

\* make_pattern: the same key function on the pattern, prefix and version
\* defaulting to the backend's (glob_escape changes neither: no glob characters)
make_pattern(pattern, version, prefix) ==
    <<IF prefix = None THEN KeyPrefix ELSE prefix, ":",
      VerStr(IF version = None THEN DefaultVersion ELSE version), ":">> \o pattern

\* glob matching as SCAN ... MATCH does it: "*" stands for any run of tokens
RECURSIVE GlobMatch(_, _)
GlobMatch(pat, str) ==
    IF pat = <<>> THEN str = <<>>
    ELSE IF Head(pat) = "*"
         THEN \/ GlobMatch(Tail(pat), str)
              \/ (str # <<>> /\ GlobMatch(pat, Tail(str)))
         ELSE /\ str # <<>>
              /\ Head(pat) = Head(str)
              /\ GlobMatch(Tail(pat), Tail(str))

\* the Lua procedure text depends on the command only: f'... redis.call("{command.upper()}", key) ...'
Procedure(command) == [loop |-> "scan-repeat", perKey |-> Upper(command)]

\* SCRIPT LOAD returns the SHA1 of the script text: equal texts, equal hashes
ShaOf(script) == <<"sha1", script.perKey>>

\* faulty variant: one storage key for every command kind
StorageKeyShared(command) == <<"proc__", "cmd", "__pattern">>

\* storage_key = f'proc__{command.lower()}__pattern'
StorageKey(command) == <<"proc__", Lower(command), "__pattern">>

\* ------------------------------------------------------------ the universe
Procs == {"c1", "c2"}
Commands == {"DEL", "UNLINK"}
Versions == {"1", "2"}
Patterns == {<<"session:", "*">>, <<"*">>}
UserKeys == {make_key(<<"session:", "1">>, "1"), make_key(<<"session:", "2">>, "1"),
             make_key(<<"other:", "1">>, "1"), make_key(<<"session:", "1">>, "2")}
HashKeys == {make_key(StorageKey(cmd), v) : cmd \in Commands, v \in Versions}
AllKeys == UserKeys \cup HashKeys
\* batch sizes a caller passes explicitly
IterSizes == 1..MaxIter

Min(a, b) == IF a < b THEN a ELSE b
Present(st) == {k \in DOMAIN st : st[k] # Absent}
Matching(st, pattern) == {k \in Present(st) : GlobMatch(pattern, k)}

\* an entry written by DefaultClient.set without a timeout argument gets the
\* backend's default timeout; user data of the initial keyspace has none
Entry(value, ttl) == [val |-> value, ttl |-> ttl]

\* ---------------------------------------------------- the resilience wrapper
\* value: Nothing for a returned None, Some(v) for a returned v
Returned(v) == [kind |-> "return", value |-> v, exc |-> None]
Raised(e) == [kind |-> "raise", value |-> Nothing, exc |-> e]
NoOutcome == [kind |-> "running", value |-> Nothing, exc |-> None]

\* django_redis.cache.omit_exception: only ConnectionInterrupted is caught; with
\* ignore_exceptions the default return value (None) is returned, otherwise the
\* cause is re-raised; any other exception passes through untouched
omit_exception(outcome, ignore) ==
    IF outcome.kind = "raise" /\ outcome.exc = "ConnectionInterrupted"
    THEN IF ignore THEN Returned(Nothing) ELSE Raised("ConnectionError")
    ELSE outcome

\* what the caller of the public method sees: through the cache backend every
\* method is decorated, on the client nothing is
Deliver(via, outcome, ignore) ==
    IF via = "cache" THEN omit_exception(outcome, ignore) ELSE outcome

\* ------------------------------------------------------ the public entry points
\* DjangoRedisExtended.delete_pattern / unlink_pattern: the command handed to _do_pattern
ClientCommand(method) == IF method = "unlink_pattern" THEN "UNLINK" ELSE "DEL"

\* RedisCacheExtended.delete_pattern / unlink_pattern: the client method called
CacheTarget(method) == "delete_pattern"

\* the itersize _do_pattern receives: the client's default when the caller of the
\* client omits it; the cache backend passes its own default None explicitly
EffectiveIterSize(via, itersize) ==
    IF via = "client" /\ itersize = Nothing THEN Some(DefaultIterSize) ELSE itersize

\* ------------------------------------------------ the typed operations' world
\* logical keys and the versions they are used with
OpNames == {<<"user:42">>, <<"lb">>}
OpKeys == {make_key(n, None) : n \in OpNames}

NoOp == [name |-> "none", via |-> "client", args |-> <<>>, client |-> None, conn |-> "none",
         conns |-> 0, sent |-> <<>>,
         netFailed |-> FALSE, outcome |-> NoOutcome, before |-> <<>>]

\* self.get_client(write=...): the pool's connection to the master for write=True,
\* to one of the replicas otherwise
get_client(write) == IF write THEN "master" ELSE "replica"

\* if client is None: client = self.get_client(write=...)
ClientOr(client, write) == IF client = None THEN get_client(write) ELSE client

\* the client argument a caller passes: None or a connection of its own
Clients == {None, "given"}

\* no rename is between its existence check and its RENAME
IdleRename == [stage |-> "idle", via |-> "client", args |-> <<>>, src |-> <<>>, dst |-> <<>>,
               exists |-> FALSE, deleted |-> FALSE]

\* _instances = {} (abstract.py:49), _registry = {} (__init__.py:18): no instance,
\* no provider; created and built count the Registry instances and the
\* providers constructed so far
NoRegistry == [instances |-> {}, created |-> 0, registry |-> {}, attrs |-> {}, built |-> 0,
               last |-> [name |-> "none", arg |-> None, outcome |-> NoOutcome,
                         builtBefore |-> 0, had |-> Nothing]]

\* self.connection = None after construction (0: None, n: the n-th connection
\* opened); no temporary_connection block is open
NoHana == [connection |-> 0, opened |-> 0, blocks |-> <<>>,
           last |-> [kind |-> "none", how |-> "none", entry |-> 0, before |-> 0, after |-> 0]]

\* a project without variables, no command run
NoGitlab == [vars |-> {}, stage |-> "idle", total |-> 0, page |-> 0, requested |-> <<>>,
             variables |-> <<>>, outcome |-> NoOutcome, todo |-> <<>>,
             last |-> [name |-> "none", key |-> None, lookup |-> "none", code |-> 0,
                       writes |-> <<>>, outcome |-> NoOutcome]]

\* the procedure's locals
IdleLua == [cursor |-> "0", count |-> 0, rest |-> {}]

IdleCall ==
    [via |-> "client", method |-> "none", command |-> "none", arg_pattern |-> <<>>,
     pattern |-> <<>>,
     version |-> None, itersize |-> Nothing, storage_key |-> <<>>, func_sha |-> Nothing,
     arg_itersize |-> Nothing, client |-> None, conn |-> "none", used |-> {}, counts |-> {},
     lookup_key |-> <<>>, write_key |-> <<>>,
     again |-> FALSE, cachedAtLookup |-> FALSE, loads |-> 0, ran |-> None,
     matchedAtInvoke |-> 0, before |-> <<>>, outcome |-> NoOutcome]

Init ==
    /\ store = [k \in AllKeys |-> IF k \in UserKeys THEN Entry(<<"v">>, "none") ELSE Absent]
    /\ scripts = {}
    \* the bulk-op engine is studied with IGNORE_EXCEPTIONS on
    /\ ignoreExc = TRUE
    /\ pc = [c \in Procs |-> "idle"]
    /\ call = [c \in Procs |-> IdleCall]
    /\ lua = [c \in Procs |-> IdleLua]
    /\ kv = [k \in OpKeys |-> [type |-> "none", val |-> <<>>, ttl |-> "absent", zset |-> <<>>]]
    /\ op = NoOp
    /\ rn = IdleRename
    /\ reg = NoRegistry
    /\ hana = NoHana
    /\ gl = NoGitlab

NoScriptRunning == \A c \in Procs : pc[c] # "lua"

\* the call ends after the commands `sent` went out on the connections named
\* with them: the wrapper decides what the caller sees
FinishSent(c, outcome, sent) ==
    /\ pc' = [pc EXCEPT ![c] = "done"]
    /\ call' = [call EXCEPT ![c].outcome = Deliver(call[c].via, outcome, ignoreExc),
                            ![c].used = @ \cup sent]

\* the call ends, nothing more having been sent
Finish(c, outcome) == FinishSent(c, outcome, {})

\* a public bulk-op method is called (client.py:65-95, cache.py:27-37); the
\* namespaced pattern and the storage key are computed (client.py:37, 57)
\* if client is None: client = self.get_client(write=True)   (client.py:76-77, 92-93)
CallPatternWith(c, vias, patterns, versions, itersizes, clients) ==
    /\ pc[c] \in {"idle", "done"}
    /\ \E via \in vias, method \in {"delete_pattern", "unlink_pattern"},
          pattern \in patterns, version \in versions, itersize \in itersizes,
          client \in clients :
         LET target == IF via = "cache" THEN CacheTarget(method) ELSE method
             command == ClientCommand(target)
         IN call' = [call EXCEPT ![c] =
                [IdleCall EXCEPT !.via = via, !.method = method, !.command = command,
                     !.arg_pattern = pattern,
                     !.pattern = make_pattern(pattern, version, None),
                     !.version = version,
                     !.itersize = EffectiveIterSize(via, itersize),
                     !.arg_itersize = itersize,
                     !.client = client,
                     !.conn = ClientOr(client, TRUE),
                     !.storage_key = StorageKey(command),
                     !.again = /\ pc[c] = "done"
                               /\ call[c].outcome.kind = "return"
                               /\ call[c].outcome.value # Nothing
                               /\ call[c].command = command
                               /\ call[c].version = version
                               /\ ShaOf(Procedure(command)) \in scripts,
                     !.before = store]]
    /\ pc' = [pc EXCEPT ![c] = "lookup"]
    /\ UNCHANGED <<store, scripts, ignoreExc, kv, op, lua, rn, reg, hana, gl>>

\* the public method called without a client argument
CallPatternFrom(c, vias, patterns, versions, itersizes) ==
    CallPatternWith(c, vias, patterns, versions, itersizes, {None})

CallPattern(c) ==
    CallPatternFrom(c, {"client", "cache"}, Patterns, {None} \cup Versions,
                    {Nothing} \cup {Some(n) : n \in IterSizes})

\* func_sha = self.get(storage_key, version=version)   (client.py:58)
\* the inherited get is given no client: it takes the pool's read connection; it
\* turns a connection failure into ConnectionInterrupted
Lookup(c) ==
    /\ pc[c] = "lookup"
    /\ NoScriptRunning
    /\ \/ LET key == make_key(call[c].storage_key, call[c].version)
              e == store[key]
              sha == IF e = Absent THEN Nothing ELSE e.val
          IN /\ call' = [call EXCEPT ![c].func_sha = sha, ![c].cachedAtLookup = (sha # Nothing),
                                      ![c].lookup_key = key,
                                      ![c].used = @ \cup {<<"GET", get_client(FALSE)>>}]
             /\ pc' = [pc EXCEPT ![c] = IF sha = Nothing THEN "compile" ELSE "invoke"]
       \/ Finish(c, Raised("ConnectionInterrupted"))
    /\ UNCHANGED <<store, scripts, ignoreExc, kv, op, lua, rn, reg, hana, gl>>

\* func_sha = self.script(procedure, client=client)   (client.py:60, 417-432)
Compile(c) ==
    /\ pc[c] = "compile"
    /\ NoScriptRunning
    /\ \/ LET sha == ShaOf(Procedure(call[c].command))
          IN /\ scripts' = scripts \cup {sha}
             /\ call' = [call EXCEPT ![c].func_sha = sha, ![c].loads = @ + 1,
                                      ![c].used = @ \cup {<<"SCRIPT LOAD", call[c].conn>>}]
             /\ pc' = [pc EXCEPT ![c] = "storehash"]
       \/ /\ Finish(c, Raised("ConnectionError"))
          /\ UNCHANGED scripts
    /\ UNCHANGED <<store, ignoreExc, kv, op, lua, rn, reg, hana, gl>>

\* self.set(key=storage_key, value=func_sha, client=client)   (client.py:61)
\* no version and no timeout are passed: default version, default timeout
StoreHash(c) ==
    /\ pc[c] = "storehash"
    /\ NoScriptRunning
    /\ \/ LET key == make_key(call[c].storage_key, None)
          IN /\ store' = [store EXCEPT ![key] = Entry(call[c].func_sha, "default_timeout")]
             /\ pc' = [pc EXCEPT ![c] = "invoke"]
             /\ call' = [call EXCEPT ![c].write_key = key,
                                      ![c].used = @ \cup {<<"SET", call[c].conn>>}]
       \/ /\ Finish(c, Raised("ConnectionInterrupted"))
          /\ UNCHANGED store
    /\ UNCHANGED <<scripts, ignoreExc, kv, op, lua, rn, reg, hana, gl>>

\* return self.eval(sha=func_sha, keys_and_args=(pattern, itersize), client=client)
\* (client.py:63, 392-415): EVALSHA sha 2 pattern itersize. A None argument cannot
\* be encoded (DataError before anything is sent); a hash the store does not know
\* is answered NOSCRIPT (NoScriptError); a COUNT below 1 makes the procedure's
\* first SCAN fail and the script end in an error (ResponseError), nothing being
\* removed; none of them is handled by _do_pattern
Invoke(c) ==
    /\ pc[c] = "invoke"
    /\ NoScriptRunning
    /\ \/ /\ call[c].itersize = Nothing
          /\ Finish(c, Raised("DataError"))
          /\ UNCHANGED lua
       \/ /\ call[c].itersize # Nothing
          /\ call[c].func_sha \notin scripts
          /\ FinishSent(c, Raised("NoScriptError"), {<<"EVALSHA", call[c].conn>>})
          /\ UNCHANGED lua
       \/ /\ call[c].itersize # Nothing
          /\ call[c].func_sha \in scripts
          /\ call[c].itersize[1] < 1
          /\ FinishSent(c, Raised("ResponseError"), {<<"EVALSHA", call[c].conn>>})
          /\ UNCHANGED lua
       \/ /\ call[c].itersize # Nothing
          /\ call[c].func_sha \in scripts
          /\ call[c].itersize[1] >= 1
          /\ call' = [call EXCEPT ![c].ran = call[c].func_sha[2],
                                  ![c].matchedAtInvoke =
                                      Cardinality(Matching(store, call[c].pattern)),
                                  ![c].used = @ \cup {<<"EVALSHA", call[c].conn>>}]
          /\ lua' = [lua EXCEPT ![c] = [IdleLua EXCEPT !.rest = Present(store)]]
          /\ pc' = [pc EXCEPT ![c] = "lua"]
       \/ /\ call[c].itersize # Nothing
          /\ Finish(c, Raised("ConnectionError"))
          /\ UNCHANGED lua
    /\ UNCHANGED <<store, scripts, ignoreExc, kv, op, rn, reg, hana, gl>>

\* one SCAN cursor MATCH KEYS[1] COUNT KEYS[2]: the cursor walks the keyspace in an
\* order of the store's choosing, COUNT keys at a time, and returns those of them
\* that match; the cursor comes back "0" when the walk is complete
ScanBatches(rest, itersize) ==
    {b \in SUBSET rest : Cardinality(b) = Min(itersize, Cardinality(rest))}

\* faulty variant: the cursor does not move on: the same keys are walked again
ScanRestStuck(rest, batch) == rest

\* cursor = scanResult[1]: the keys the cursor has yet to walk
ScanRest(rest, batch) == rest \ batch

\* faulty variant: the count is incremented once per batch instead of once per key
CountPerBatch(count, keys) == count + (IF keys = {} THEN 0 ELSE 1)

\* for i = 1, #keys do redis.call(command, key); count = count + 1 end
CountAfter(count, keys) == count + Cardinality(keys)

\* one pass of the repeat ... until cursor == "0" loop of the procedure
\* (client.py:43-53); the script runs alone on the store
LuaScan(c) ==
    /\ pc[c] = "lua"
    /\ \E batch \in ScanBatches(lua[c].rest, call[c].itersize[1]) :
         LET keys == {k \in batch : store[k] # Absent /\ GlobMatch(call[c].pattern, k)}
             rest == ScanRest(lua[c].rest, batch)
             cursor == IF rest = {} THEN "0" ELSE "n"
             count == CountAfter(lua[c].count, keys)
         IN /\ store' = [k \in DOMAIN store |-> IF k \in keys THEN Absent ELSE store[k]]
            /\ lua' = [lua EXCEPT ![c] = [cursor |-> cursor, count |-> count, rest |-> rest]]
            /\ pc' = [pc EXCEPT ![c] = IF cursor = "0" THEN "done" ELSE "lua"]
            \* counts: the COUNT arguments the SCANs of this call were given
            /\ call' = [call EXCEPT
                  ![c].counts = @ \cup {call[c].itersize[1]},
                  ![c].outcome = IF cursor = "0"
                                 THEN Deliver(call[c].via, Returned(Some(count)), ignoreExc)
                                 ELSE @]
    /\ UNCHANGED <<scripts, ignoreExc, kv, op, rn, reg, hana, gl>>

\* the store forgets its compiled scripts (SCRIPT FLUSH, restart, failover)
ScriptFlush ==
    /\ NoScriptRunning
    /\ scripts # {}
    /\ scripts' = {}
    /\ UNCHANGED <<store, ignoreExc, kv, op, pc, call, lua, rn, reg, hana, gl>>

Next ==
    \/ CallPattern("c1")
    \/ Lookup("c1")
    \/ Compile("c1")
    \/ StoreHash("c1")
    \/ Invoke("c1")
    \/ LuaScan("c1")
    \/ ScriptFlush

Spec == Init /\ [][Next]_vars

\* the procedure runs inside the store, which executes a started script to its
\* end without waiting for anything (specification SpecTerm): a pass of the
\* loop that can be taken is taken
NextTerm ==
    \/ CallPatternFrom("c1", {"client"}, Patterns, {None}, {Some(n) : n \in IterSizes})
    \/ Lookup("c1")
    \/ Compile("c1")
    \/ StoreHash("c1")
    \/ Invoke("c1")
    \/ LuaScan("c1")
    \/ ScriptFlush

SpecTerm == Init /\ [][NextTerm]_vars /\ WF_vars(LuaScan("c1"))

\* several client instances run bulk-ops against one store (specification
\* SpecConc): their steps interleave freely, a running script keeps the store
\* to itself
NextConc ==
    \E c \in Procs :
        \/ CallPatternFrom(c, {"client"}, {<<"session:", "*">>}, {None}, {Some(MaxIter)})
        \/ Lookup(c)
        \/ Compile(c)
        \/ StoreHash(c)
        \/ Invoke(c)
        \/ LuaScan(c)
        \/ ScriptFlush

SpecConc == Init /\ [][NextConc]_vars

\* the arguments a caller may get wrong or leave out (specification SpecArgs):
\* a pattern with an unclosed bracket, which is sent as it is and matches no key
\* that has none; a batch size of 0; no batch size; a connection of the caller's
BadPattern == <<"session:", "[">>
ArgSizes == {Nothing, Some(0), Some(1)}

NextArgs ==
    \/ CallPatternWith("c1", {"client", "cache"}, {<<"session:", "*">>, BadPattern}, {None},
                       ArgSizes, Clients)
    \/ Lookup("c1")
    \/ Compile("c1")
    \/ StoreHash("c1")
    \/ Invoke("c1")
    \/ LuaScan("c1")
    \/ ScriptFlush

SpecArgs == Init /\ [][NextArgs]_vars

\* ======================================================================
\* The typed operations (specification SpecOps): one action per public method,
\* called on the client or through the cache backend's decorated method
\* ======================================================================
\* self.encode / self.decode: the serializer wraps the value and unwraps it
Encode(v) == <<"pickle">> \o v
Decode(b) == Tail(b)

StringEntry(value, ttl) == [type |-> "string", val |-> value, ttl |-> ttl, zset |-> <<>>]
\* a sorted set: the scores of its members, as a set of <<member, score>> pairs
ZsetEntry(pairs) == [type |-> "zset", val |-> <<>>, ttl |-> "none", zset |-> pairs]
KvAbsent == [type |-> "none", val |-> <<>>, ttl |-> "absent", zset |-> <<>>]

InitOps ==
    /\ store = [k \in AllKeys |-> Absent]
    /\ scripts = {}
    /\ ignoreExc \in BOOLEAN
    /\ pc = [c \in Procs |-> "idle"]
    /\ call = [c \in Procs |-> IdleCall]
    /\ lua = [c \in Procs |-> IdleLua]
    /\ kv = [k \in OpKeys |-> KvAbsent]
    /\ op = NoOp
    /\ rn = IdleRename
    /\ reg = NoRegistry
    /\ hana = NoHana
    /\ gl = NoGitlab

\* the operation is over: the connection it ran on ("none": it acquired none),
\* what was sent, what the store holds, what the caller sees
EndOpStep(name, via, args, client, conn, sent, netFailed, outcome, kvAfter) ==
    /\ op' = [name |-> name, via |-> via, args |-> args, client |-> client, conn |-> conn,
              conns |-> IF conn = "none" THEN 0 ELSE 1, sent |-> sent,
              netFailed |-> netFailed, outcome |-> Deliver(via, outcome, ignoreExc),
              before |-> kv]
    /\ kv' = kvAfter
    /\ UNCHANGED <<store, scripts, ignoreExc, pc, call, lua, reg, hana, gl>>

\* an operation that is one step for the other clients of the store
EndOpOn(name, via, args, client, conn, sent, netFailed, outcome, kvAfter) ==
    /\ EndOpStep(name, via, args, client, conn, sent, netFailed, outcome, kvAfter)
    /\ UNCHANGED rn

\* an operation called without a client argument: execute_command (client.py:25-27)
\* or the method itself acquires the write connection
EndOp(name, via, args, conns, sent, netFailed, outcome, kvAfter) ==
    EndOpOn(name, via, args, None, IF conns = 0 THEN "none" ELSE ClientOr(None, TRUE),
            sent, netFailed, outcome, kvAfter)

\* ------------------------------------------------------------------ setex
\* a timedelta is <<days, seconds, microseconds>>, normalized as Python keeps it
Durations ==
    {<<d, sec, us>> : d \in 0..MaxDays, sec \in {0, 10}, us \in {0, 500000}}
        \ {<<0, 0, 0>>}
TotalMs(td) == td[1] * 86400000 + td[2] * 1000 + td[3] \div 1000

\* truth value of an Optional[int] / Optional[timedelta] in `if x:`
TruthyInt(x) == x # Nothing /\ x[1] # 0
TruthyDelta(x) == x # Nothing /\ x # <<0, 0, 0>>

\* faulty variant: the relative duration is looked at first
SetexExpiryExFirst(exat, ex, ms) ==
    IF TruthyDelta(ex)
    THEN <<IF ms THEN "PX" ELSE "EX", IF ms THEN ex[2] * 1000 ELSE ex[2]>>
    ELSE IF TruthyInt(exat)
         THEN <<IF ms THEN "PXAT" ELSE "EXAT", exat[1]>>
         ELSE <<>>

\* the expiry arguments setex appends to SET key value (client.py:131-134);
\* ex.seconds is the seconds field of the timedelta
SetexExpiry(exat, ex, ms) ==
    IF TruthyInt(exat)
    THEN <<IF ms THEN "PXAT" ELSE "EXAT", exat[1]>>
    ELSE IF TruthyDelta(ex)
         THEN <<IF ms THEN "PX" ELSE "EX", IF ms THEN ex[2] * 1000 ELSE ex[2]>>
         ELSE <<>>

\* the store's SET: an expire time that is not positive is refused
SetRefused(expiry) == expiry # <<>> /\ expiry[2] <= 0

\* DjangoRedisExtended.setex (client.py:115-135), RedisCacheExtended.setex (cache.py:44-48)
Setex ==
    \E via \in {"client", "cache"}, name \in {<<"user:42">>}, ms \in BOOLEAN, fail \in BOOLEAN,
       exat \in {Nothing} \cup {Some(t) : t \in 1..MaxStamp},
       ex \in {Nothing} \cup Durations :
        LET key == make_key(name, None)
            expiry == SetexExpiry(exat, ex, ms)
            cmd == <<"SET", key, Encode(<<"v">>)>> \o expiry
            args == [key |-> name, exat |-> exat, ex |-> ex, ms |-> ms]
        IN IF fail
           THEN EndOp("setex", via, args, 1, <<>>, TRUE, Raised("ConnectionError"), kv)
           ELSE IF SetRefused(expiry)
           THEN EndOp("setex", via, args, 1, <<cmd>>, FALSE, Raised("ResponseError"), kv)
           ELSE EndOp("setex", via, args, 1, <<cmd>>, FALSE, Returned(Some(TRUE)),
                      [kv EXCEPT ![key] = StringEntry(Encode(<<"v">>),
                                     IF expiry = <<>> THEN "none" ELSE "volatile")])

\* ------------------------------------------------------------------- zadd
\* mappings member -> score a caller passes, as sets of <<member, score>>
Mappings == {{}, {<<<<"alice">>, 10>>}, {<<<<"alice">>, 10>>, <<<<"bob">>, 20>>},
             {<<<<"alice">>, 30>>}}

\* faulty variant: only a call that is wrong in both ways is rejected
ZaddRejectsBoth(mapping, nx, xx) == mapping = {} /\ (nx /\ xx)

\* the checks zadd makes before it builds the command (client.py:257-260)
ZaddRejects(mapping, nx, xx) == mapping = {} \/ (nx /\ xx)

\* the arguments after the key: flags, then score and encoded member per entry
\* (client.py:261-269); the order of a dict's items does not matter to the store
ZaddArgs(mapping, nx, xx) ==
    [flags |-> (IF nx THEN {"NX"} ELSE {}) \cup (IF xx THEN {"XX"} ELSE {}),
     pairs |-> {<<Encode(p[1]), p[2]>> : p \in mapping}]

\* the store's ZADD on the pairs a sorted set holds
Members(pairs) == {p[1] : p \in pairs}
ZaddPairs(old, zargs) ==
    LET takes == {p \in zargs.pairs :
                    IF p[1] \in Members(old) THEN "NX" \notin zargs.flags
                                             ELSE "XX" \notin zargs.flags}
    IN {p \in old : p[1] \notin Members(takes)} \cup takes
ZaddAdded(old, zargs) == Cardinality(Members(ZaddPairs(old, zargs)) \ Members(old))

\* DjangoRedisExtended.zadd (client.py:241-270), RedisCacheExtended.zadd (cache.py:75-78)
ZaddWith(mappings) ==
    \E via \in {"client", "cache"}, name \in {<<"lb">>}, mapping \in mappings,
       nx \in BOOLEAN, xx \in BOOLEAN, fail \in BOOLEAN :
        LET key == make_key(name, None)
            zargs == ZaddArgs(mapping, nx, xx)
            cmd == <<"ZADD", key, zargs>>
            args == [key |-> name, mapping |-> mapping, nx |-> nx, xx |-> xx]
            old == IF kv[key].type = "zset" THEN kv[key].zset ELSE {}
            new == ZaddPairs(old, zargs)
        IN IF ZaddRejects(mapping, nx, xx)
           THEN EndOp("zadd", via, args, 0, <<>>, FALSE, Raised("ValueError"), kv)
           ELSE IF fail
           THEN EndOp("zadd", via, args, 1, <<>>, TRUE, Raised("ConnectionError"), kv)
           ELSE IF kv[key].type = "string"
           THEN EndOp("zadd", via, args, 1, <<cmd>>, FALSE, Raised("ResponseError"), kv)
           ELSE EndOp("zadd", via, args, 1, <<cmd>>, FALSE,
                      Returned(Some(ZaddAdded(old, zargs))),
                      IF new = {} THEN kv ELSE [kv EXCEPT ![key] = ZsetEntry(new)])

Zadd == ZaddWith(Mappings)

\* ----------------------------------------------------------------- rename
\* the store's RENAME: the entry moves to the new name, replacing what was there
RedisRename(st, src, dst) ==
    [k \in DOMAIN st |-> IF k = dst THEN st[src] ELSE IF k = src THEN KvAbsent ELSE st[k]]

\* faulty variant: RENAME is sent without asking EXISTS first: the store answers
\* "no such key" for an absent source
RenameUnchecked(st, src, dst) ==
    IF st[src] # KvAbsent
    THEN [sent |-> <<<<"RENAME", src, dst>>>>, outcome |-> Returned(Some(TRUE)),
          after |-> RedisRename(st, src, dst)]
    ELSE [sent |-> <<<<"RENAME", src, dst>>>>, outcome |-> Raised("ResponseError"),
          after |-> st]

\* if client.exists(key): result = client.rename(key, new_key) else: result = False
\* (client.py:383-387)
RenameChecked(st, src, dst) ==
    IF st[src] # KvAbsent
    THEN [sent |-> <<<<"EXISTS", src>>, <<"RENAME", src, dst>>>>,
          outcome |-> Returned(Some(TRUE)), after |-> RedisRename(st, src, dst)]
    ELSE [sent |-> <<<<"EXISTS", src>>>>, outcome |-> Returned(Some(FALSE)), after |-> st]

\* versions a caller of rename passes
RenameVersions == {None, "2"}

\* DjangoRedisExtended.rename (client.py:371-387), RedisCacheExtended.rename (cache.py:112-114)
Rename ==
    \E via \in {"client", "cache"}, name \in OpNames, new_name \in OpNames,
       version \in RenameVersions, fail \in BOOLEAN :
        LET src == make_key(name, version)
            dst == make_key(new_name, version)
            args == [key |-> name, new_key |-> new_name, version |-> version]
            r == RenameChecked([k \in OpKeys \cup {src, dst} |->
                                   IF k \in OpKeys THEN kv[k] ELSE KvAbsent], src, dst)
        IN IF fail
           THEN EndOp("rename", via, args, 1, <<>>, TRUE, Raised("ConnectionError"), kv)
           ELSE EndOp("rename", via, args, 1, r.sent, FALSE, r.outcome,
                      [k \in OpKeys |-> r.after[k]])

NextOps ==
    \/ Setex
    \/ Zadd
    \/ Rename

SpecOps == InitOps /\ [][NextOps]_vars

\* ------------------------------------------- rename beside another client
\* rename is two commands on one connection, EXISTS and then RENAME
\* (client.py:383-384); commands of other clients of the store can run between
\* them (specification SpecRace)

\* faulty variant: RENAME of a source that is gone is answered like a rename that
\* was never sent
RenameReplyQuiet(st, src, dst) ==
    IF st[src] # KvAbsent
    THEN [outcome |-> Returned(Some(TRUE)), after |-> RedisRename(st, src, dst)]
    ELSE [outcome |-> Returned(Some(FALSE)), after |-> st]

\* result = client.rename(key, new_key)   (client.py:384): the store answers
\* RENAME of a key that does not exist with the error "no such key", which
\* redis-py raises as ResponseError
RenameReply(st, src, dst) ==
    IF st[src] # KvAbsent
    THEN [outcome |-> Returned(Some(TRUE)), after |-> RedisRename(st, src, dst)]
    ELSE [outcome |-> Raised("ResponseError"), after |-> st]

\* if client.exists(self.make_key(key, version=version)):   (client.py:381-383)
RenameExists ==
    /\ rn.stage = "idle"
    /\ \E via \in {"client", "cache"}, name \in OpNames, new_name \in OpNames :
         LET src == make_key(name, None)
         IN rn' = [stage |-> "checked", via |-> via,
                   args |-> [key |-> name, new_key |-> new_name, version |-> None],
                   src |-> src, dst |-> make_key(new_name, None),
                   exists |-> kv[src] # KvAbsent, deleted |-> FALSE]
    /\ UNCHANGED <<store, scripts, ignoreExc, pc, call, lua, kv, op, reg, hana, gl>>

\* another client of the store sets a key
OtherSet ==
    /\ \E k \in OpKeys :
         /\ kv[k] = KvAbsent
         /\ kv' = [kv EXCEPT ![k] = StringEntry(Encode(<<"v">>), "none")]
    /\ UNCHANGED <<store, scripts, ignoreExc, pc, call, lua, op, rn, reg, hana, gl>>

\* another client of the store deletes a key
OtherDelete ==
    /\ \E k \in OpKeys :
         /\ kv[k] # KvAbsent
         /\ kv' = [kv EXCEPT ![k] = KvAbsent]
         /\ rn' = IF rn.stage = "checked" /\ k = rn.src
                  THEN [rn EXCEPT !.deleted = TRUE] ELSE rn
    /\ UNCHANGED <<store, scripts, ignoreExc, pc, call, lua, op, reg, hana, gl>>

\* result = client.rename(...) / result = False; return result   (client.py:384-387)
RenameSend ==
    /\ rn.stage = "checked"
    /\ LET r == RenameReply(kv, rn.src, rn.dst)
           exists == <<"EXISTS", rn.src>>
       IN IF rn.exists
          THEN EndOpStep("rename", rn.via, rn.args, None, get_client(TRUE),
                         <<exists, <<"RENAME", rn.src, rn.dst>>>>, FALSE, r.outcome, r.after)
          ELSE EndOpStep("rename", rn.via, rn.args, None, get_client(TRUE),
                         <<exists>>, FALSE, Returned(Some(FALSE)), kv)
    /\ rn' = [rn EXCEPT !.stage = "idle"]

NextRace ==
    \/ OtherSet
    \/ RenameExists
    \/ OtherDelete
    \/ RenameSend

SpecRace == InitOps /\ [][NextRace]_vars

\* ======================================================================
\* The typed collection operations on a reachable store: the list methods and
\* expire_at on the key queue (specification SpecLists), the sorted-set methods
\* on the key lb (specification SpecZsets)
\* ======================================================================
CollNames == {<<"lb">>, <<"queue">>}
CollKeys == {make_key(n, None) : n \in CollNames}

\* a list: its encoded elements, head first
ListEntry(items, ttl) == [type |-> "list", val |-> items, ttl |-> ttl, zset |-> <<>>]

InitColl ==
    /\ store = [k \in AllKeys |-> Absent]
    /\ scripts = {}
    /\ ignoreExc \in BOOLEAN
    /\ pc = [c \in Procs |-> "idle"]
    /\ call = [c \in Procs |-> IdleCall]
    /\ lua = [c \in Procs |-> IdleLua]
    /\ kv = [k \in CollKeys |-> KvAbsent]
    /\ op = NoOp
    /\ rn = IdleRename
    /\ reg = NoRegistry
    /\ hana = NoHana
    /\ gl = NoGitlab

\* -------------------------------------------------------------- expire_at
\* faulty variant: the two resolutions are mixed up
ExpireAtCommandSwapped(ms) == IF ms THEN "EXPIREAT" ELSE "PEXPIREAT"

\* 'PEXPIREAT' if ms else 'EXPIREAT'   (client.py:112)
ExpireAtCommand(ms) == IF ms THEN "PEXPIREAT" ELSE "EXPIREAT"

\* the store's EXPIREAT / PEXPIREAT with a timestamp ahead of its clock: 1 and the
\* expiry is set when the key exists, 0 and nothing changes when it does not
RedisExpireAt(st, key) ==
    IF st[key].type = "none"
    THEN [reply |-> 0, after |-> st]
    ELSE [reply |-> 1, after |-> [st EXCEPT ![key].ttl = "volatile"]]

\* DjangoRedisExtended.expire_at (client.py:100-113), RedisCacheExtended.expire_at
\* (cache.py:39-42)
ExpireAt ==
    \E via \in {"client", "cache"}, name \in {<<"queue">>}, ms \in BOOLEAN,
       client \in Clients, ex \in 1..MaxStamp :
        LET key == make_key(name, None)
            cmd == <<ExpireAtCommand(ms), key, ex>>
            r == RedisExpireAt(kv, key)
            args == [key |-> name, ex |-> ex, ms |-> ms]
        IN EndOpOn("expire_at", via, args, client, ClientOr(client, TRUE), <<cmd>>, FALSE,
                   Returned(Some(r.reply = 1)), r.after)

\* ------------------------------------------------------------------ lists
\* values a caller pushes
Items == {<<"a">>, <<"b">>}
\* counts a caller pops with
PopCounts == 1..(MaxLen + 1)

\* the store's LPUSH / RPUSH of one element
RedisPush(command, items, e) ==
    IF command = "LPUSH" THEN <<e>> \o items ELSE Append(items, e)

\* DjangoRedisExtended.lpush / rpush (client.py:183-203), RedisCacheExtended.lpush /
\* rpush (cache.py:58-64); the methods return nothing
Push ==
    \E via \in {"client", "cache"}, method \in {"lpush", "rpush"}, item \in Items,
       client \in Clients :
        LET key == make_key(<<"queue">>, None)
            command == IF method = "lpush" THEN "LPUSH" ELSE "RPUSH"
            old == kv[key].val
            cmd == <<command, key, Encode(item)>>
            args == [key |-> <<"queue">>, item |-> item]
        IN /\ Len(old) < MaxLen
           /\ EndOpOn(method, via, args, client, ClientOr(client, TRUE), <<cmd>>, FALSE,
                      Returned(Nothing),
                      [kv EXCEPT ![key] =
                          ListEntry(RedisPush(command, old, Encode(item)),
                                    IF kv[key].type = "none" THEN "none" ELSE kv[key].ttl)])

\* the store's LPOP / RPOP key count on a list: up to count elements leave the
\* head (the tail), and are replied in the order they left
RedisPop(command, items, count) ==
    LET n == Min(count, Len(items))
    IN IF command = "LPOP"
       THEN [reply |-> SubSeq(items, 1, n), rest |-> SubSeq(items, n + 1, Len(items))]
       ELSE [reply |-> [i \in 1..n |-> items[Len(items) - i + 1]],
             rest |-> SubSeq(items, 1, Len(items) - n)]

\* faulty variant: only the first element of the reply is decoded and returned
_decode_first(array) == IF array = <<>> THEN <<>> ELSE <<Decode(array[1])>>

\* list(map(self.decode, array))   (client.py:97-98)
_decode_array(array) == [i \in 1..Len(array) |-> Decode(array[i])]

\* DjangoRedisExtended.lpop / rpop (client.py:153-181), RedisCacheExtended.lpop / rpop
\* (cache.py:50-56). On a key that does not exist the store replies nil, and
\* map(self.decode, None) raises TypeError
Pop ==
    \E via \in {"client", "cache"}, method \in {"lpop", "rpop"}, count \in PopCounts,
       client \in Clients :
        LET key == make_key(<<"queue">>, None)
            command == IF method = "lpop" THEN "LPOP" ELSE "RPOP"
            cmd == <<command, key, count>>
            args == [key |-> <<"queue">>, count |-> count]
            r == RedisPop(command, kv[key].val, count)
        IN IF kv[key].type = "none"
           THEN EndOpOn(method, via, args, client, ClientOr(client, TRUE), <<cmd>>, FALSE,
                        Raised("TypeError"), kv)
           ELSE EndOpOn(method, via, args, client, ClientOr(client, TRUE), <<cmd>>, FALSE,
                        Returned(Some(_decode_array(r.reply))),
                        [kv EXCEPT ![key] = IF r.rest = <<>> THEN KvAbsent
                                            ELSE ListEntry(r.rest, kv[key].ttl)])

\* ------------------------------------------------------------ sorted sets
\* mappings with a negative score beside the positive ones
ScoreMappings == {{<<<<"alice">>, 10>>, <<<<"bob">>, 20>>}, {<<<<"alice">>, 30>>},
                  {<<<<"carol">>, -5>>}, {}}
\* score bounds a caller passes
ScoreArgs == {Nothing} \cup {Some(b) : b \in {-5, 0, 10}}

\* what the store is sent for a bound: the number, or the open end
Score(n) == [kind |-> "score", n |-> n]
Inf(end) == [kind |-> end, n |-> 0]

\* faulty variant: only a bound that was not passed becomes the open end
IsNoneOrInf(x, end) == IF x # Nothing THEN Score(x[1]) ELSE Inf(end)

\* min_s or '-inf' / max_s or '+inf'   (client.py:286, 310, 356): Python's `or`
\* takes the right operand when the left one is falsy
OrInf(x, end) == IF TruthyInt(x) THEN Score(x[1]) ELSE Inf(end)

\* the store's inclusive score interval
InRange(sc, lo, hi) ==
    /\ lo.kind = "-inf" \/ (lo.kind = "score" /\ lo.n <= sc)
    /\ hi.kind = "+inf" \/ (hi.kind = "score" /\ sc <= hi.n)

\* the pairs of the sorted set under the key (none when the key does not exist)
ZsetOf(st, key) == IF st[key].type = "zset" THEN st[key].zset ELSE {}

\* the store keeps a sorted set ordered by score, members of equal score by
\* their bytes
MemberRank(m) ==
    CASE m = Encode(<<"alice">>) -> 1 [] m = Encode(<<"bob">>) -> 2 [] OTHER -> 3
ScoreLess(p, q) == p[2] < q[2] \/ (p[2] = q[2] /\ MemberRank(p[1]) < MemberRank(q[1]))
RECURSIVE ZsetOrder(_)
ZsetOrder(pairs) ==
    IF pairs = {} THEN <<>>
    ELSE LET p == CHOOSE x \in pairs : \A q \in pairs \ {x} : ScoreLess(x, q)
         IN <<p>> \o ZsetOrder(pairs \ {p})
Reverse(seq) == [i \in 1..Len(seq) |-> seq[Len(seq) - i + 1]]

\* the store's index range start..end over an ordered reply, negative indexes
\* counting from the end
IndexRange(seq, start, end) ==
    LET lo == IF start < 0 THEN (IF Len(seq) + start < 0 THEN 0 ELSE Len(seq) + start)
              ELSE start
        hi == IF end < 0 THEN Len(seq) + end
              ELSE IF end >= Len(seq) THEN Len(seq) - 1 ELSE end
    IN IF lo > hi THEN <<>> ELSE SubSeq(seq, lo + 1, hi + 1)

\* a score as the store replies it, and score_cast_func applied to it by the
\* redis client (float(b"10") is 10.0)
WireScore(n) == <<"bytes", n>>
ScoreCast(score_cast, w) == <<score_cast, w[2]>>

\* what client.zrange / client.zrangebyscore hands back for the store's ordered
\* reply: with withscores, pairs of member bytes and cast score
RedisReply(ordered, withscores, score_cast) ==
    IF withscores
    THEN [i \in 1..Len(ordered) |->
              <<ordered[i][1], ScoreCast(score_cast, WireScore(ordered[i][2]))>>]
    ELSE [i \in 1..Len(ordered) |-> ordered[i][1]]

\* faulty variant: the members of the pairs are handed back as the store sent them
ZrangeResultRaw(cached_result, with_scores) ==
    IF with_scores
    THEN cached_result
    ELSE [i \in 1..Len(cached_result) |-> Decode(cached_result[i])]

\* [(self.decode(item[0]), item[1]) for item in cached_result] if with_scores
\* else [self.decode(item) for item in cached_result]   (client.py:312-314, 337-339)
ZrangeResult(cached_result, with_scores) ==
    IF with_scores
    THEN [i \in 1..Len(cached_result) |->
              <<Decode(cached_result[i][1]), cached_result[i][2]>>]
    ELSE [i \in 1..Len(cached_result) |-> Decode(cached_result[i])]

ScoreCasts == {"float", "int"}

\* DjangoRedisExtended.zcount (client.py:272-286), RedisCacheExtended.zcount
\* (cache.py:80-83); without a client the default get_client() is used
Zcount ==
    \E via \in {"client", "cache"}, min_s \in ScoreArgs, max_s \in ScoreArgs :
        LET key == make_key(<<"lb">>, None)
            lo == OrInf(min_s, "-inf")
            hi == OrInf(max_s, "+inf")
            cmd == <<"ZCOUNT", key, lo, hi>>
            args == [key |-> <<"lb">>, min_s |-> min_s, max_s |-> max_s]
            n == Cardinality({p \in ZsetOf(kv, key) : InRange(p[2], lo, hi)})
        IN EndOpOn("zcount", via, args, None, ClientOr(None, FALSE), <<cmd>>, FALSE,
                   Returned(Some(n)), kv)

\* DjangoRedisExtended.zrange_by_score (client.py:288-314), RedisCacheExtended.
\* zrange_by_score (cache.py:85-93), start and num left at None
ZrangeByScore ==
    \E via \in {"client", "cache"}, min_s \in ScoreArgs, max_s \in ScoreArgs,
       with_scores \in BOOLEAN, score_cast \in {"float"} :
        LET key == make_key(<<"lb">>, None)
            lo == OrInf(min_s, "-inf")
            hi == OrInf(max_s, "+inf")
            cmd == <<"ZRANGEBYSCORE", key, lo, hi>>
            args == [key |-> <<"lb">>, min_s |-> min_s, max_s |-> max_s,
                     with_scores |-> with_scores, score_cast |-> score_cast]
            ordered == ZsetOrder({p \in ZsetOf(kv, key) : InRange(p[2], lo, hi)})
            cached_result == RedisReply(ordered, with_scores, score_cast)
        IN EndOpOn("zrange_by_score", via, args, None, ClientOr(None, FALSE), <<cmd>>, FALSE,
                   Returned(Some(ZrangeResult(cached_result, with_scores))), kv)

\* DjangoRedisExtended.zrange (client.py:316-339), RedisCacheExtended.zrange
\* (cache.py:95-101)
Zrange ==
    \E via \in {"client", "cache"}, start \in {0, 1}, end \in {-1, 0}, desc \in BOOLEAN,
       with_scores \in BOOLEAN, score_cast \in ScoreCasts :
        LET key == make_key(<<"lb">>, None)
            cmd == <<"ZRANGE", key, start, end, desc>>
            args == [key |-> <<"lb">>, start |-> start, end |-> end, desc |-> desc,
                     with_scores |-> with_scores, score_cast |-> score_cast]
            all == ZsetOrder(ZsetOf(kv, key))
            ordered == IndexRange(IF desc THEN Reverse(all) ELSE all, start, end)
            cached_result == RedisReply(ordered, with_scores, score_cast)
        IN EndOpOn("zrange", via, args, None, ClientOr(None, FALSE), <<cmd>>, FALSE,
                   Returned(Some(ZrangeResult(cached_result, with_scores))), kv)

\* DjangoRedisExtended.zrem_range_by_score (client.py:341-356), RedisCacheExtended.
\* zrem_range_by_score (cache.py:103-106); a sorted set left empty is removed
ZremRangeByScore ==
    \E via \in {"client", "cache"}, min_s \in ScoreArgs, max_s \in ScoreArgs,
       client \in Clients :
        LET key == make_key(<<"lb">>, None)
            lo == OrInf(min_s, "-inf")
            hi == OrInf(max_s, "+inf")
            cmd == <<"ZREMRANGEBYSCORE", key, lo, hi>>
            args == [key |-> <<"lb">>, min_s |-> min_s, max_s |-> max_s]
            old == ZsetOf(kv, key)
            gone == {p \in old : InRange(p[2], lo, hi)}
        IN EndOpOn("zrem_range_by_score", via, args, client, ClientOr(client, TRUE),
                   <<cmd>>, FALSE, Returned(Some(Cardinality(gone))),
                   IF gone = {} THEN kv
                   ELSE IF gone = old THEN [kv EXCEPT ![key] = KvAbsent]
                   ELSE [kv EXCEPT ![key].zset = old \ gone])

\* lists of members a caller asks zrem to remove
ItemLists == {<<>>, <<<<"alice">>>>, <<<<"alice">>, <<"zed">>>>}

\* return client.zrem(name=self.make_key(key, version=version),
\*                    *[self.encode(item) for item in items])   (client.py:368)
\* the client argument is used as it came: on None the attribute lookup fails;
\* on a connection the first encoded item lands in the parameter `name`, which
\* the keyword then names again (TypeError when the call is bound); with no
\* item ZREM goes out with a key only and the store refuses it
ZremCall(client, key, encoded) ==
    IF client = None
    THEN [conn |-> "none", sent |-> <<>>, outcome |-> Raised("AttributeError")]
    ELSE IF encoded # <<>>
    THEN [conn |-> client, sent |-> <<>>, outcome |-> Raised("TypeError")]
    ELSE [conn |-> client, sent |-> <<<<"ZREM", key>>>>, outcome |-> Raised("ResponseError")]

\* DjangoRedisExtended.zrem (client.py:358-368), RedisCacheExtended.zrem (cache.py:108-110)
Zrem ==
    \E via \in {"client", "cache"}, items \in ItemLists, client \in Clients :
        LET key == make_key(<<"lb">>, None)
            args == [key |-> <<"lb">>, items |-> items]
            r == ZremCall(client, key, [i \in 1..Len(items) |-> Encode(items[i])])
        IN EndOpOn("zrem", via, args, client, r.conn, r.sent, FALSE, r.outcome, kv)

NextLists ==
    \/ ExpireAt
    \/ Push
    \/ Pop

SpecLists == InitColl /\ [][NextLists]_vars

NextZsets ==
    \/ ZaddWith(ScoreMappings)
    \/ Zcount
    \/ ZrangeByScore
    \/ Zrange
    \/ ZremRangeByScore
    \/ Zrem

SpecZsets == InitColl /\ [][NextZsets]_vars

\* ======================================================================
\* The registry of keycloak providers (keycloak_auth/__init__.py,
\* keycloak_auth/providers/abstract.py): specification SpecRegistry.
\* Calls are made one after the other.
\* ======================================================================
\* providers constructed at most (the counter stops the model, not the code)
MaxBuilt == 3

\* provider names and connector classes of the callers (views.py:20, 75)
ProviderNames == {"X5ID", "CIP"}
Modules == {"X5IDConnect", "KeycloakConnect"}

\* the provider a connector's connect() returns: the n-th one constructed
Provider(module, n) == <<module, n>>

\* self._registry[name], Nothing for a name that is not a key of it
Registered(registry, name) ==
    IF \E e \in registry : e[1] = name
    THEN (CHOOSE e \in registry : e[1] = name)[2]
    ELSE Nothing

\* faulty variant: a provider is constructed on every register
AlwaysBuild(registry, name) == TRUE

\* if name not in self._registry:   (__init__.py:28)
NotRegistered(registry, name) == Registered(registry, name) = Nothing

\* Registry(): MetaSingleton.__call__ (abstract.py:51-55)
RegistryCall ==
    LET fresh == ~\E i \in reg.instances : i[1] = "Registry"
        instances == IF fresh THEN reg.instances \cup {<<"Registry", reg.created + 1>>}
                     ELSE reg.instances
        instance == (CHOOSE i \in instances : i[1] = "Registry")[2]
    IN /\ reg' = [reg EXCEPT !.instances = instances,
                             !.created = IF fresh THEN @ + 1 ELSE @,
                             !.last = [name |-> "Registry", arg |-> None,
                                       outcome |-> Returned(Some(instance)),
                                       builtBefore |-> reg.built, had |-> Nothing]]
       /\ UNCHANGED <<store, scripts, ignoreExc, pc, call, lua, kv, op, rn, hana, gl>>

\* Registry.register (__init__.py:20-35); constructing or connecting the
\* provider can fail, and then nothing is stored
Register ==
    /\ reg.instances # {}
    /\ \E name \in ProviderNames, module \in Modules, fails \in BOOLEAN :
         LET had == Registered(reg.registry, name)
             initiated == Provider(module, reg.built + 1)
         IN IF NotRegistered(reg.registry, name)
            THEN /\ reg.built < MaxBuilt
                 /\ IF fails
                    THEN reg' = [reg EXCEPT !.last =
                                    [name |-> "register", arg |-> name,
                                     outcome |-> Raised("ConnectError"),
                                     builtBefore |-> reg.built, had |-> had]]
                    ELSE reg' = [reg EXCEPT
                                    !.registry = @ \cup {<<name, initiated>>},
                                    !.attrs = @ \cup {name},
                                    !.built = @ + 1,
                                    !.last = [name |-> "register", arg |-> name,
                                              outcome |-> Returned(initiated),
                                              builtBefore |-> reg.built, had |-> had]]
            ELSE /\ ~fails
                 /\ reg' = [reg EXCEPT !.last =
                                [name |-> "register", arg |-> name,
                                 outcome |-> Returned(Registered(reg.registry, name)),
                                 builtBefore |-> reg.built, had |-> had]]
    /\ UNCHANGED <<store, scripts, ignoreExc, pc, call, lua, kv, op, rn, hana, gl>>

\* Registry.unregister (__init__.py:37-44): del of a name that is not registered
\* raises KeyError
Unregister ==
    /\ reg.instances # {}
    /\ \E name \in ProviderNames :
         LET had == Registered(reg.registry, name)
         IN IF had = Nothing
            THEN reg' = [reg EXCEPT !.last =
                            [name |-> "unregister", arg |-> name, outcome |-> Raised("KeyError"),
                             builtBefore |-> reg.built, had |-> had]]
            ELSE reg' = [reg EXCEPT
                            !.registry = @ \ {<<name, had>>},
                            !.attrs = @ \ {name},
                            !.last = [name |-> "unregister", arg |-> name,
                                      outcome |-> Returned(Nothing),
                                      builtBefore |-> reg.built, had |-> had]]
    /\ UNCHANGED <<store, scripts, ignoreExc, pc, call, lua, kv, op, rn, hana, gl>>

NextRegistry ==
    \/ RegistryCall
    \/ Register
    \/ Unregister

SpecRegistry == Init /\ [][NextRegistry]_vars

\* ======================================================================
\* The SAP HANA database wrapper's temporary connection (saphana/base.py):
\* specification SpecHana.
\* ======================================================================
\* connections opened at most, blocks nested at most (the bounds stop the
\* model, not the code)
MaxConn == 3
MaxDepth == 2

\* faulty variant: the block closes the connection whoever opened it
MustCloseAlways(connection) == TRUE

\* must_close = self.connection is None   (base.py:175)
MustClose(connection) == connection = 0

\* code outside the blocks, or the body of a block, establishes the connection
\* (ensure_connection)
HanaConnect ==
    /\ hana.connection = 0
    /\ hana.opened < MaxConn
    /\ hana' = [hana EXCEPT !.connection = hana.opened + 1, !.opened = @ + 1,
                            !.last = [kind |-> "connect", how |-> "normal", entry |-> 0,
                                      before |-> 0, after |-> hana.opened + 1]]
    /\ UNCHANGED <<store, scripts, ignoreExc, pc, call, lua, kv, op, rn, reg, gl>>

\* code outside the blocks, or the body of a block, closes the connection
HanaClose ==
    /\ hana.connection # 0
    /\ hana' = [hana EXCEPT !.connection = 0,
                            !.last = [kind |-> "close", how |-> "normal", entry |-> 0,
                                      before |-> hana.connection, after |-> 0]]
    /\ UNCHANGED <<store, scripts, ignoreExc, pc, call, lua, kv, op, rn, reg, gl>>

\* with self.temporary_connection() as cursor:   (base.py:175-178): must_close is
\* taken, then self.cursor() establishes the connection if there is none; when
\* that fails the finally clause runs, there being nothing to close
TempEnter ==
    /\ Len(hana.blocks) < MaxDepth
    /\ LET block == [must_close |-> MustClose(hana.connection), entry |-> hana.connection]
       IN \/ /\ hana.connection # 0
             /\ hana' = [hana EXCEPT !.blocks = Append(@, block),
                                     !.last = [kind |-> "enter", how |-> "normal",
                                               entry |-> hana.connection,
                                               before |-> hana.connection,
                                               after |-> hana.connection]]
          \/ /\ hana.connection = 0
             /\ hana.opened < MaxConn
             /\ hana' = [hana EXCEPT !.blocks = Append(@, block),
                                     !.connection = hana.opened + 1, !.opened = @ + 1,
                                     !.last = [kind |-> "enter", how |-> "normal", entry |-> 0,
                                               before |-> 0, after |-> hana.opened + 1]]
          \/ /\ hana.connection = 0
             /\ hana' = [hana EXCEPT !.last = [kind |-> "enter", how |-> "raise", entry |-> 0,
                                               before |-> 0, after |-> 0]]
    /\ UNCHANGED <<store, scripts, ignoreExc, pc, call, lua, kv, op, rn, reg, gl>>

\* the body of the innermost block ends, normally or with an exception:
\* finally: if must_close: self.close()   (base.py:179-181)
TempExit ==
    /\ hana.blocks # <<>>
    /\ \E how \in {"normal", "raise"} :
         LET block == hana.blocks[Len(hana.blocks)]
             after == IF block.must_close THEN 0 ELSE hana.connection
         IN hana' = [hana EXCEPT !.blocks = SubSeq(@, 1, Len(@) - 1),
                                 !.connection = after,
                                 !.last = [kind |-> "exit", how |-> how, entry |-> block.entry,
                                           before |-> hana.connection, after |-> after]]
    /\ UNCHANGED <<store, scripts, ignoreExc, pc, call, lua, kv, op, rn, reg, gl>>

NextHana ==
    \/ HanaConnect
    \/ HanaClose
    \/ TempEnter
    \/ TempExit

SpecHana == Init /\ [][NextHana]_vars

\* ======================================================================
\* The GitLab variables client (gitlab/vars.py): specification SpecGitlab.
\* The script runs one command at a time.
\* ======================================================================
\* pages the server reports at most, variables of one import at most
MaxPages == 2
MaxItems == 2

\* keys of the variables of an import
GitKeys == {"TOKEN", "URL"}

\* what the server holds on a page: pages past the last one are empty
PageItems(page, total) == IF page <= total THEN <<page>> ELSE <<>>

\* cmd_export / cmd_clear call get_variables (vars.py:94-98): page = 1,
\* variables = []; the server reports `total` pages throughout the call
GetVariables ==
    /\ gl.stage # "paging"
    /\ gl.todo = <<>>
    /\ \E total \in 0..MaxPages :
         gl' = [gl EXCEPT !.stage = "paging", !.total = total, !.page = 1,
                          !.requested = <<>>, !.variables = <<>>, !.outcome = NoOutcome]
    /\ UNCHANGED <<store, scripts, ignoreExc, pc, call, lua, kv, op, rn, reg, hana>>

\* if page == total_pages: break   (vars.py:104-105)
LastPage(page, total_pages) == page = total_pages

\* one pass of the while True loop (vars.py:100-106): the request of a page,
\* which can fail with an HTTPError that get_variables lets through. The page
\* counter of the model stops at MaxPages + 2, the code's does not stop
GetPage ==
    /\ gl.stage = "paging"
    /\ gl.page <= MaxPages + 2
    /\ \E fails \in BOOLEAN :
         LET requested == Append(gl.requested, gl.page)
             variables == gl.variables \o PageItems(gl.page, gl.total)
         IN IF fails
            THEN gl' = [gl EXCEPT !.stage = "done", !.requested = requested,
                                  !.outcome = Raised("HTTPError")]
            ELSE IF LastPage(gl.page, gl.total)
            THEN gl' = [gl EXCEPT !.stage = "done", !.requested = requested,
                                  !.variables = variables,
                                  !.outcome = Returned(variables)]
            ELSE gl' = [gl EXCEPT !.requested = requested, !.variables = variables,
                                  !.page = @ + 1]
    /\ UNCHANGED <<store, scripts, ignoreExc, pc, call, lua, kv, op, rn, reg, hana>>

\* imports of at most MaxItems variables
Imports == UNION {[1..n -> GitKeys] : n \in 1..MaxItems}

\* cmd_import (vars.py:161-165) starts on its list of variables
CmdImport ==
    /\ gl.stage # "paging"
    /\ gl.todo = <<>>
    /\ \E items \in Imports : gl' = [gl EXCEPT !.todo = items]
    /\ UNCHANGED <<store, scripts, ignoreExc, pc, call, lua, kv, op, rn, reg, hana>>

\* what get_variable's request ends with: the variable, an empty body, or an
\* HTTPError with its status code
Lookups(held, key) ==
    (IF key \in held THEN {[kind |-> "data", code |-> 200]}
     ELSE {[kind |-> "http", code |-> 404]})
    \cup {[kind |-> "empty", code |-> 200], [kind |-> "http", code |-> 500]}

\* faulty variant: every HTTPError of the lookup is taken for "no such variable"
NotFoundOrAny(code) == TRUE

\* except urllib.error.HTTPError as e: if e.code != 404: raise   (vars.py:151-153)
NotFound(code) == code = 404

\* if data is not None: update_variable else: create_variable   (vars.py:155-158)
UpsertWrite(lookup) == IF lookup.kind = "data" THEN "PUT" ELSE "POST"

\* the server's answer to the write: POST of a key it holds and PUT of a key it
\* does not hold are refused
WriteRefused(held, key, write) ==
    IF write = "POST" THEN key \in held ELSE key \notin held

\* gitlab.upsert_variable(item) for the next item of the import (vars.py:148-158,
\* 163-165); an exception ends the import
UpsertVariable ==
    /\ gl.todo # <<>>
    /\ \E lookup \in Lookups(gl.vars, Head(gl.todo)), fails \in BOOLEAN :
         LET key == Head(gl.todo)
             write == UpsertWrite(lookup)
             done(writes, outcome) ==
                 [name |-> "upsert", key |-> key, lookup |-> lookup.kind,
                  code |-> lookup.code, writes |-> writes, outcome |-> outcome]
         IN IF lookup.kind = "http" /\ ~NotFound(lookup.code)
            THEN /\ ~fails
                 /\ gl' = [gl EXCEPT !.todo = <<>>,
                                     !.last = done(<<>>, Raised("HTTPError"))]
            ELSE IF fails \/ WriteRefused(gl.vars, key, write)
            THEN gl' = [gl EXCEPT !.todo = <<>>,
                                  !.last = done(<<write>>, Raised("HTTPError"))]
            ELSE gl' = [gl EXCEPT !.todo = Tail(@), !.vars = @ \cup {key},
                                  !.last = done(<<write>>, Returned(Nothing))]
    /\ UNCHANGED <<store, scripts, ignoreExc, pc, call, lua, kv, op, rn, reg, hana>>

\* cmd_clear, or somebody else, deletes a variable of the project
DeleteVariable ==
    /\ gl.stage # "paging"
    /\ \E key \in gl.vars : gl' = [gl EXCEPT !.vars = @ \ {key}]
    /\ UNCHANGED <<store, scripts, ignoreExc, pc, call, lua, kv, op, rn, reg, hana>>

NextGitlab ==
    \/ GetVariables
    \/ GetPage
    \/ CmdImport
    \/ UpsertVariable
    \/ DeleteVariable

SpecGitlab == Init /\ [][NextGitlab]_vars

\* ======================================================================
\* Claims about the pattern bulk-op engine (specification Spec)
\* ======================================================================
Done(c) == pc[c] = "done"
\* the key is in the namespace of the call's version and its name matches the
\* pattern the caller passed
InScope(c, k) ==
    GlobMatch(<<KeyPrefix, ":", IF call[c].version = None THEN DefaultVersion
                                ELSE call[c].version, ":">> \o call[c].arg_pattern, k)
\* the call ran to its end and handed back the procedure's result
Completed(c) == Done(c) /\ call[c].outcome.kind = "return" /\ call[c].outcome.value # Nothing

C2_NoSecondScriptLoad ==
    (pc["c1"] \in {"invoke", "lua", "done"} /\ call["c1"].again) => call["c1"].loads = 0

\* C3: a completed bulk delete has removed every key that was present and matched
\* the namespaced pattern, and has left every other key that was present in place
\* with its value, whatever the batch size; it creates no user key.
C3_RemovesExactlyMatching ==
    Completed("c1") =>
        /\ \A k \in AllKeys :
             call["c1"].before[k] # Absent =>
                IF InScope("c1", k)
                THEN store[k] = Absent
                ELSE store[k] # Absent /\ store[k].val = call["c1"].before[k].val
        /\ \A k \in UserKeys : call["c1"].before[k] = Absent => store[k] = Absent

\* a delete with batch size 1 over two matching keys and a non-matching one completed
C3_Witness ==
    /\ Completed("c1")
    /\ call["c1"].itersize = Some(1)
    /\ Cardinality({k \in UserKeys : call["c1"].before[k] # Absent
                                     /\ InScope("c1", k)}) >= 2
    /\ \E k \in UserKeys : call["c1"].before[k] # Absent /\ ~InScope("c1", k)

\* C4: the count a completed bulk-op returns is the number of keys that matched the
\* pattern when the procedure was invoked, which is the number of keys it removed.
C4_ReturnsNumberRemoved ==
    Completed("c1") =>
        /\ call["c1"].outcome.value = Some(call["c1"].matchedAtInvoke)
        /\ Matching(store, call["c1"].pattern) = {}

\* session:* over session:1, session:2, other:1, scanned one key at a time, returned 2
C4_Witness ==
    /\ Completed("c1")
    /\ call["c1"].pattern = make_pattern(<<"session:", "*">>, None, None)
    /\ call["c1"].itersize = Some(1)
    /\ \A k \in {make_key(<<"session:", "1">>, None), make_key(<<"session:", "2">>, None),
                 make_key(<<"other:", "1">>, None)} : call["c1"].before[k] # Absent
    /\ call["c1"].outcome.value = Some(2)

\* C5: on every public path unlink_pattern runs the UNLINK procedure, cached under
\* proc__unlink__pattern, and delete_pattern the DEL procedure, cached under
\* proc__del__pattern.
C5_CommandFollowsMethod ==
    pc["c1"] # "idle" =>
        LET cmd == IF call["c1"].method = "unlink_pattern" THEN "UNLINK" ELSE "DEL"
        IN /\ call["c1"].command = cmd
           /\ call["c1"].storage_key = StorageKey(cmd)
           /\ call["c1"].ran \in {None, cmd}

\* a script-hash entry that is in the store is still there, unchanged, after the step
HashEntryKept == \A k \in HashKeys : store[k] # Absent => store'[k] = store[k]

\* C18: a script-hash entry, once written under the storage key, stays in the
\* store: it is written without an expiry, and no step of the bulk-op engine
\* removes it or overwrites it with another value.
C18_HashEntryPersists ==
    /\ [](\A k \in HashKeys : store[k] # Absent => store[k].ttl = "none")
    /\ [][HashEntryKept]_vars

\* C19: the store holds at most one script-hash entry per command kind, under
\* the namespaced key proc__del__pattern or proc__unlink__pattern; its value is
\* the hash of the procedure of that kind; and a call writes the entry under the
\* namespaced key it looked it up under.
C19_OneEntryPerKind ==
    /\ \A cmd \in Commands :
         /\ Cardinality({v \in Versions : store[make_key(StorageKey(cmd), v)] # Absent}) <= 1
         /\ \A v \in Versions :
              store[make_key(StorageKey(cmd), v)] # Absent =>
                  store[make_key(StorageKey(cmd), v)].val = ShaOf(Procedure(cmd))
    /\ call["c1"].write_key # <<>> => call["c1"].write_key = call["c1"].lookup_key

\* ======================================================================
\* Claims about the arguments of a bulk-op (specification SpecArgs)
\* ======================================================================
\* C21: a bulk-op called without a batch size, on the client or on the cache
\* backend, scans with the default batch size 50,000; a batch size the caller
\* gives is the COUNT of every SCAN of the call.
C21_DefaultBatchSize ==
    pc["c1"] # "idle" =>
        /\ call["c1"].itersize = (IF call["c1"].arg_itersize = Nothing
                                  THEN Some(DefaultIterSize) ELSE call["c1"].arg_itersize)
        /\ call["c1"].counts \subseteq {call["c1"].itersize[1]}

\* the call was given a malformed pattern or a batch size below 1
InvalidArgs(c) ==
    \/ call[c].arg_pattern = BadPattern
    \/ call[c].arg_itersize # Nothing /\ call[c].arg_itersize[1] < 1

\* the call ended on a connection failure, raised or swallowed by the wrapper
ConnectionFailed(c) ==
    \/ call[c].outcome.exc \in {"ConnectionError", "ConnectionInterrupted"}
    \/ call[c].outcome = Returned(Nothing)

\* C22: a bulk-op called with a malformed pattern or an invalid batch size ends
\* in an error raised to the caller, also through the cache backend, before the
\* script is compiled or invoked, the store being left as it was.
C22_InvalidArgsRejected ==
    (Done("c1") /\ InvalidArgs("c1") /\ ~ConnectionFailed("c1")) =>
        /\ call["c1"].outcome.kind = "raise"
        /\ call["c1"].loads = 0
        /\ call["c1"].ran = None
        /\ store = call["c1"].before

\* C24: the server-side procedure terminates for every finite keyspace and every
\* batch size >= 1: once started it reaches its end, a pass ends the procedure
\* exactly when SCAN returned cursor "0", and the keyspace is only ever read
\* with SCAN, COUNT keys at a time
C24_ProcedureTerminates ==
    /\ (pc["c1"] = "lua") ~> (pc["c1"] = "done")
    /\ [][(pc["c1"] = "lua" /\ lua'["c1"] # lua["c1"]) =>
            /\ (pc'["c1"] = "done") <=> (lua'["c1"].cursor = "0")
            /\ Cardinality(lua["c1"].rest \ lua'["c1"].rest) <= call["c1"].itersize[1]
            /\ lua'["c1"].rest \subseteq lua["c1"].rest]_vars
    /\ [](Procedure(call["c1"].command).loop = "scan-repeat")

\* a call with batch size 1 over several matching keys has run the loop more
\* than once and come to its end
C24_Witness ==
    /\ pc["c1"] = "done"
    /\ call["c1"].itersize = Some(1)
    /\ call["c1"].matchedAtInvoke >= 2
    /\ lua["c1"].cursor = "0"
    /\ lua["c1"].count >= 2
    /\ call["c1"].outcome = Returned(Some(lua["c1"].count))

\* C28: when the caller passes a client to delete_pattern / unlink_pattern, every
\* command of the call (GET of the hash, SCRIPT LOAD, SET of the hash, EVALSHA)
\* goes out on that client and none on a connection of the pool.
C28_AllOnGivenClient ==
    call["c1"].client # None => \A u \in call["c1"].used : u[2] = call["c1"].client

\* ======================================================================
\* Claims about concurrent bulk-ops (specification SpecConc)
\* ======================================================================
\* C20: under every interleaving of the lookup, compile, store-hash and invoke
\* steps of two clients, each call that invokes a procedure invokes the one of
\* its own command kind, and a hash under a storage key is the hash of the
\* procedure of that key's command kind, whoever wrote it last.
C20_ConcurrentSameScript ==
    /\ \A c \in Procs : call[c].ran \in {None, call[c].command}
    /\ \A cmd \in Commands, v \in Versions :
         store[make_key(StorageKey(cmd), v)] # Absent =>
             store[make_key(StorageKey(cmd), v)].val = ShaOf(Procedure(cmd))

\* both clients missed the cache, compiled and stored the hash of the same
\* command kind, and both calls completed
C20_Witness ==
    /\ Completed("c1") /\ Completed("c2")
    /\ call["c1"].command = call["c2"].command
    /\ call["c1"].loads = 1 /\ call["c2"].loads = 1
    /\ call["c1"].write_key # <<>> /\ call["c2"].write_key = call["c1"].write_key
    /\ store[call["c1"].write_key] # Absent

\* ======================================================================
\* Claims about the typed operations (specification SpecOps)
\* ======================================================================
\* the expiry arguments of the SET command the last setex sent
SentExpiry == SubSeq(op.sent[1], 4, Len(op.sent[1]))

\* C6: with the swallow policy on, a connection failure during an operation called
\* through the cache backend does not reach the caller: the operation returns the
\* fallback value.
C6_FailureSwallowed ==
    (op.name # "none" /\ op.via = "cache" /\ ignoreExc /\ op.netFailed)
        => op.outcome.kind = "return"

\* C7: zadd with an empty mapping, or with nx and xx both set, raises ValueError
\* to the caller (also through the cache backend) before a connection is acquired
\* or a command is sent, and the store is unchanged.
C7_ZaddRejectsEarly ==
    (op.name = "zadd" /\ (op.args.mapping = {} \/ (op.args.nx /\ op.args.xx)))
        => /\ op.outcome = Raised("ValueError")
           /\ op.conns = 0
           /\ op.sent = <<>>
           /\ kv = op.before

\* zadd with both flags was called through the cache backend, the swallow policy on
C7_Witness ==
    /\ op.name = "zadd"
    /\ op.via = "cache"
    /\ ignoreExc
    /\ op.args.mapping # {}
    /\ op.args.nx /\ op.args.xx
    /\ op.outcome.exc = "ValueError"

\* C8: rename of an absent source key returns False and changes nothing; rename
\* of a present source key returns True, the entry is then under the namespaced
\* new key, no longer under the old one (unless both are the same key), and no
\* other key changes.
C8_RenameAbsentIsFalse ==
    (op.name = "rename" /\ ~op.netFailed) =>
        LET src == make_key(op.args.key, op.args.version)
            dst == make_key(op.args.new_key, op.args.version)
        IN IF src \notin OpKeys \/ op.before[src] = KvAbsent
           THEN op.outcome = Returned(Some(FALSE)) /\ kv = op.before
           ELSE /\ op.outcome = Returned(Some(TRUE))
                /\ kv[dst] = op.before[src]
                /\ src # dst => kv[src] = KvAbsent
                /\ \A k \in OpKeys \ {src, dst} : kv[k] = op.before[k]

\* rename of an absent source was called on a store that holds other keys
C8_Witness ==
    /\ op.name = "rename"
    /\ op.outcome = Returned(Some(FALSE))
    /\ \E k \in OpKeys : kv[k] # KvAbsent

\* a present source key was renamed to a different key
C8_MovedWitness ==
    /\ op.name = "rename"
    /\ op.outcome = Returned(Some(TRUE))
    /\ op.args.key # op.args.new_key

\* C9: the SET that setex sends carries at most one expiry option: EXAT (PXAT with
\* ms) and the timestamp when exat is given, also when ex is given too; EX (PX
\* with ms) when only ex is given; none when neither is given.
C9_SetexOneExpiryOption ==
    (op.name = "setex" /\ ~op.netFailed) =>
        /\ Len(op.sent) = 1
        /\ Len(SentExpiry) \in {0, 2}
        /\ IF op.args.exat # Nothing
           THEN SentExpiry = <<IF op.args.ms THEN "PXAT" ELSE "EXAT", op.args.exat[1]>>
           ELSE IF op.args.ex # Nothing
                THEN Len(SentExpiry) = 2 /\ SentExpiry[1] = (IF op.args.ms THEN "PX" ELSE "EX")
                ELSE SentExpiry = <<>>

\* setex was called with both an absolute timestamp and a relative duration
C9_Witness ==
    /\ op.name = "setex"
    /\ ~op.netFailed
    /\ op.args.exat # Nothing
    /\ op.args.ex # Nothing
    /\ SentExpiry[1] \in {"EXAT", "PXAT"}

\* C10: setex with a relative duration only stores the key with an expiry equal to
\* the whole duration: in seconds without ms, in milliseconds with ms.
C10_ExpiryIsWholeDuration ==
    (op.name = "setex" /\ ~op.netFailed /\ op.args.exat = Nothing /\ op.args.ex # Nothing) =>
        /\ op.outcome = Returned(Some(TRUE))
        /\ Len(SentExpiry) = 2
        /\ SentExpiry[2] = (IF op.args.ms THEN TotalMs(op.args.ex)
                                          ELSE TotalMs(op.args.ex) \div 1000)

\* ======================================================================
\* Claims about rename beside another client (specification SpecRace)
\* ======================================================================

\* C26: rename never raises for an absent source key under concurrency: when
\* another client deleted the source key between rename's existence check and
\* its RENAME command, rename returns False and the store's "no such key"
\* error does not reach the caller.
C26_RenameRaceIsFalse ==
    (op.name = "rename" /\ rn.stage = "idle" /\ rn.deleted /\ op.before[rn.src] = KvAbsent) =>
        op.outcome = Returned(Some(FALSE))

\* ======================================================================
\* Claims about the list methods and expire_at (specification SpecLists)
\* ======================================================================
QueueKey == make_key(<<"queue">>, None)

\* C11: expire_at sends PEXPIREAT when ms is true and EXPIREAT otherwise, with the
\* namespaced key and the given timestamp, and returns True exactly when the
\* store set the expiry; on a key that does not exist it returns False and the
\* store is unchanged.
C11_ExpireAtSetsExpiry ==
    op.name = "expire_at" =>
        LET key == make_key(op.args.key, None)
            existed == op.before[key].type # "none"
        IN /\ op.sent = <<(<<IF op.args.ms THEN "PEXPIREAT" ELSE "EXPIREAT",
                              key, op.args.ex>>)>>
           /\ op.outcome = Returned(Some(existed))
           /\ IF existed
              THEN kv = [op.before EXCEPT ![key].ttl = "volatile"]
              ELSE kv = op.before

\* expire_at with ms set an expiry on an existing list
C11_Witness ==
    /\ op.name = "expire_at"
    /\ op.args.ms
    /\ op.before[QueueKey].type = "list"
    /\ op.outcome = Returned(Some(TRUE))
    /\ kv[QueueKey].ttl = "volatile"

\* expire_at on a key that does not exist returned False
C11_AbsentWitness ==
    /\ op.name = "expire_at"
    /\ op.before[QueueKey].type = "none"
    /\ op.outcome = Returned(Some(FALSE))

\* C16: lpop / rpop with a count on a list remove min(count, length) elements from
\* the head (lpop) or the tail (rpop) and return them decoded, one result per
\* removed element, in the order they left the list; what remains is the
\* original list without them.
C16_PopReturnsRemoved ==
    (op.name \in {"lpop", "rpop"} /\ op.before[QueueKey].type = "list") =>
        LET old == op.before[QueueKey].val
            n == Min(op.args.count, Len(old))
            left == IF n = Len(old) THEN <<>>
                    ELSE IF op.name = "lpop" THEN SubSeq(old, n + 1, Len(old))
                    ELSE SubSeq(old, 1, Len(old) - n)
        IN /\ op.outcome.kind = "return"
           /\ op.outcome.value # Nothing
           /\ Len(op.outcome.value[1]) = n
           /\ \A i \in 1..n :
                Encode(op.outcome.value[1][i]) =
                    (IF op.name = "lpop" THEN old[i] ELSE old[Len(old) - i + 1])
           /\ kv[QueueKey].val = left
           /\ (left = <<>>) = (kv[QueueKey].type = "none")

\* rpop took both elements of a list of two different elements, last one first
C16_Witness ==
    /\ op.name = "rpop"
    /\ op.args.count >= 2
    /\ op.before[QueueKey].type = "list"
    /\ op.before[QueueKey].val = <<Encode(<<"a">>), Encode(<<"b">>)>>
    /\ op.outcome = Returned(Some(<<(<<"b">>), (<<"a">>)>>))
    /\ kv[QueueKey].type = "none"

\* C27: lpop and rpop on a key that does not exist (an empty list is a key that
\* does not exist) return an empty result without raising and leave the store
\* unchanged.
C27_PopOfMissingKey ==
    (op.name \in {"lpop", "rpop"} /\ op.before[QueueKey].type = "none") =>
        /\ op.outcome = Returned(Some(<<>>))
        /\ kv = op.before

\* ======================================================================
\* Claims about the sorted-set methods (specification SpecZsets)
\* ======================================================================
LbKey == make_key(<<"lb">>, None)

\* the pairs whose score lies between the bounds the caller passed, a bound that
\* was not passed being open
Between(pairs, min_s, max_s) ==
    {p \in pairs : /\ min_s = Nothing \/ min_s[1] <= p[2]
                   /\ max_s = Nothing \/ p[2] <= max_s[1]}

\* C12: zcount returns the number of members with min_s <= score <= max_s for
\* every integer bound passed (negative, zero or positive), a bound not passed
\* being -infinity / +infinity; zrange_by_score returns the members of that
\* same interval.
C12_BoundsAsPassed ==
    op.name \in {"zcount", "zrange_by_score"} =>
        LET inside == Between(ZsetOf(op.before, LbKey), op.args.min_s, op.args.max_s)
        IN IF op.name = "zcount"
           THEN op.outcome = Returned(Some(Cardinality(inside)))
           ELSE /\ op.outcome.kind = "return"
                /\ Len(op.outcome.value[1]) = Cardinality(inside)

\* C13: zrem_range_by_score without bounds removes every member and returns their
\* number; with bounds it removes exactly the members whose score lies in
\* [min_s, max_s] and leaves the others in place.
C13_RemovesScoreRange ==
    op.name = "zrem_range_by_score" =>
        LET old == ZsetOf(op.before, LbKey)
            inside == Between(old, op.args.min_s, op.args.max_s)
        IN /\ op.outcome = Returned(Some(Cardinality(inside)))
           /\ ZsetOf(kv, LbKey) = old \ inside

\* C14: zrem, with a client passed or without, removes exactly the listed members
\* that are in the sorted set and returns how many it removed; listed members
\* that are not in the set cause no error.
C14_ZremRemovesListed ==
    op.name = "zrem" =>
        LET old == ZsetOf(op.before, LbKey)
            listed == {Encode(op.args.items[i]) : i \in 1..Len(op.args.items)}
            gone == {p \in old : p[1] \in listed}
        IN /\ op.outcome = Returned(Some(Cardinality(gone)))
           /\ ZsetOf(kv, LbKey) = old \ gone

\* the ordered (member, score) reply of the store to the last range method
RangeReply ==
    LET old == ZsetOf(op.before, LbKey)
    IN IF op.name = "zrange"
       THEN IndexRange(IF op.args.desc THEN Reverse(ZsetOrder(old)) ELSE ZsetOrder(old),
                       op.args.start, op.args.end)
       ELSE ZsetOrder({p \in old : InRange(p[2], OrInf(op.args.min_s, "-inf"),
                                                 OrInf(op.args.max_s, "+inf"))})

\* C15: zrange and zrange_by_score return, with with_scores, the pairs (decoded
\* member, score cast by score_cast) in the order of the store's reply, and
\* without it the decoded members only; zrange(lb, 0, -1, with_scores=True) on
\* the set left by zadd(lb, {alice: 10, bob: 20}) is [(alice, 10.0), (bob, 20.0)].
C15_RangeResultShape ==
    op.name \in {"zrange", "zrange_by_score"} =>
        /\ op.outcome.kind = "return"
        /\ op.outcome.value # Nothing
        /\ Len(op.outcome.value[1]) = Len(RangeReply)
        /\ \A i \in 1..Len(RangeReply) :
             IF op.args.with_scores
             THEN op.outcome.value[1][i] =
                      <<Decode(RangeReply[i][1]), <<op.args.score_cast, RangeReply[i][2]>>>>
             ELSE op.outcome.value[1][i] = Decode(RangeReply[i][1])
        /\ (/\ op.name = "zrange"
            /\ op.args.start = 0 /\ op.args.end = -1 /\ ~op.args.desc
            /\ op.args.with_scores /\ op.args.score_cast = "float"
            /\ ZsetOf(op.before, LbKey) =
                   {<<Encode(<<"alice">>), 10>>, <<Encode(<<"bob">>), 20>>})
           => op.outcome.value[1] = <<(<<(<<"alice">>), (<<"float", 10>>)>>),
                                      (<<(<<"bob">>), (<<"float", 20>>)>>)>>

\* zrange(lb, 0, -1, with_scores=True) ran on the set {alice: 10, bob: 20}
C15_Witness ==
    /\ op.name = "zrange"
    /\ op.args.start = 0 /\ op.args.end = -1 /\ ~op.args.desc
    /\ op.args.with_scores /\ op.args.score_cast = "float"
    /\ ZsetOf(op.before, LbKey) = {<<Encode(<<"alice">>), 10>>, <<Encode(<<"bob">>), 20>>}
    /\ Len(op.outcome.value[1]) = 2

\* the methods that modify the store
Modifying == {"lpush", "rpush", "lpop", "rpop", "zadd", "zrem", "zrem_range_by_score",
              "rename", "expire_at", "setex"}

\* C17: every modifying operation called without a client argument, and not
\* rejected for its arguments, runs on the pool's write connection (the master),
\* never on a replica connection.
C17_WritesOnMaster ==
    (op.name \in Modifying /\ op.client = None /\ op.outcome.exc # "ValueError")
        => op.conn = "master"

\* ======================================================================
\* Claims about the provider registry (specification SpecRegistry)
\* ======================================================================

\* C23: Registry is a singleton and register is idempotent per name: every
\* Registry() call yields the same instance; register constructs and connects
\* a provider only for a name that is not registered, and for a registered name
\* returns the provider stored first without constructing another one, until
\* unregister removes the name.
C23_SingletonIdempotentRegister ==
    /\ reg.created <= 1
    /\ Cardinality(reg.instances) <= 1
    /\ reg.last.name = "Registry" => reg.last.outcome = Returned(Some(1))
    /\ \A e1, e2 \in reg.registry : e1[1] = e2[1] => e1 = e2
    /\ reg.attrs = {e[1] : e \in reg.registry}
    /\ (reg.last.name = "register" /\ reg.last.had # Nothing) =>
           /\ reg.last.outcome = Returned(reg.last.had)
           /\ reg.built = reg.last.builtBefore
           /\ Registered(reg.registry, reg.last.arg) = reg.last.had
    /\ (reg.last.name = "register" /\ reg.last.had = Nothing
                                   /\ reg.last.outcome.kind = "return") =>
           /\ reg.built = reg.last.builtBefore + 1
           /\ reg.last.outcome.value[2] = reg.built
           /\ Registered(reg.registry, reg.last.arg) = reg.last.outcome.value
    /\ (reg.last.name = "unregister" /\ reg.last.outcome.kind = "return") =>
           Registered(reg.registry, reg.last.arg) = Nothing

\* a name registered with one connector was registered again after other
\* providers were constructed: the call returned the first provider
C23_Witness ==
    /\ reg.last.name = "register"
    /\ reg.last.had # Nothing
    /\ reg.last.had[2] < reg.built
    /\ reg.last.outcome = Returned(reg.last.had)
    /\ reg.created = 1

\* ======================================================================
\* Claims about the temporary connection (specification SpecHana)
\* ======================================================================

\* C25: temporary_connection closes the connection on exit, whether the body
\* finished normally or raised, exactly when no connection existed at entry;
\* when a connection was established at entry, the exit leaves the connection
\* as the body left it.
C25_ClosesWhatItOpened ==
    hana.last.kind = "exit" =>
        /\ hana.connection = hana.last.after
        /\ IF hana.last.entry = 0
           THEN hana.last.after = 0
           ELSE hana.last.after = hana.last.before

\* a block entered on an open connection ended with an exception inside a
\* block that had opened that connection: the connection is still open
C25_Witness ==
    /\ hana.last.kind = "exit"
    /\ hana.last.how = "raise"
    /\ hana.last.entry # 0
    /\ hana.last.before = hana.last.entry
    /\ hana.connection = hana.last.entry
    /\ Len(hana.blocks) = 1
    /\ hana.blocks[1].must_close

\* a block entered without a connection ended with an exception: the
\* connection it opened is closed
C25_ClosedWitness ==
    /\ hana.last.kind = "exit"
    /\ hana.last.how = "raise"
    /\ hana.last.entry = 0
    /\ hana.last.before # 0
    /\ hana.connection = 0

\* ======================================================================
\* Claims about the GitLab variables client (specification SpecGitlab)
\* ======================================================================

\* C29: get_variables terminates for every total page count the server
\* reports, 0 included: it requests the pages 1..total_pages in increasing
\* order, each once (the first page is requested to learn the count), and
\* returns the concatenation of their items.
C29_PagesUpToTotal ==
    /\ \A i \in 1..Len(gl.requested) :
         /\ gl.requested[i] = i
         /\ i <= (IF gl.total = 0 THEN 1 ELSE gl.total)
    /\ (gl.stage = "done" /\ gl.outcome.kind = "return") =>
           /\ Len(gl.requested) = (IF gl.total = 0 THEN 1 ELSE gl.total)
           /\ gl.outcome.value = [i \in 1..gl.total |-> i]

\* C30: upsert_variable issues exactly one write per call: PUT when the lookup
\* returned data, POST when the lookup answered 404 or returned no data; when
\* the lookup fails with another HTTP error the error propagates and no write
\* is issued.
C30_OneWritePerUpsert ==
    gl.last.name = "upsert" =>
        /\ gl.last.lookup = "data" => gl.last.writes = <<"PUT">>
        /\ gl.last.lookup = "empty" => gl.last.writes = <<"POST">>
        /\ (gl.last.lookup = "http" /\ gl.last.code = 404) => gl.last.writes = <<"POST">>
        /\ (gl.last.lookup = "http" /\ gl.last.code # 404) =>
               /\ gl.last.writes = <<>>
               /\ gl.last.outcome = Raised("HTTPError")

\* the second variable of an import was looked up, found and updated after the
\* first one had been created
C30_Witness ==
    /\ gl.last.name = "upsert"
    /\ gl.last.lookup = "data"
    /\ gl.last.writes = <<"PUT">>
    /\ gl.last.outcome = Returned(Nothing)
    /\ gl.vars = GitKeys

\* a lookup that failed with status 500 ended the import without a write
C30_ErrorWitness ==
    /\ gl.last.name = "upsert"
    /\ gl.last.code = 500
    /\ gl.last.writes = <<>>
    /\ gl.last.outcome = Raised("HTTPError")
    /\ gl.vars # {}

====
